---- MODULE Spec2Model ----
(***************************************************************************)
(* Agent orchestration graph of the IoT risk assessment system:            *)
(* generator_ensemble -> aggregator -> {challenger_a, challenger_b,        *)
(* challenger_c} -> verifier -> [revise | escalate | end].                 *)
(* The state is LangGraph's StateSchema; every node is one action whose    *)
(* effect is the partial state the node returns, merged by the channel     *)
(* reducers of the schema.                                                 *)
(***************************************************************************)
EXTENDS Integers, Sequences, FiniteSets, TLC

VARIABLES
    risk_input,         \* StateSchema: the scenario under assessment
    MAX_REVISIONS,      \* Config.MAX_REVISIONS of this run
    pc,                 \* the node(s) the runtime executes next
    draft_assessments,  \* StateSchema.draft_assessments
    synthesized_draft,  \* StateSchema.synthesized_draft
    critiques,          \* StateSchema.critiques (reducer: operator.add)
    revision_count,     \* StateSchema.revision_count
    updates,            \* writes of the challengers waiting for the fan-in
    route,              \* the last value returned by should_continue
    escalation,         \* what escalation_node returned
    artifacts,          \* the escalation files written, in order
    produced,           \* history: the critique each challenger created in the current round
    rounds,             \* history: number of completed fan-ins
    recorded,           \* conversation_recorder: the stages that have a record in the run's log
    available,          \* LLMFactory.get_available_providers()
    generator_configs,  \* Config.get_generator_configs()
    tasks,              \* run_all: the coroutine of each generator spec
    completion_order,   \* run_all: indices of the tasks in the order they finished
    final_results,      \* run_all: the list it returns
    fallback_events,    \* LLMFactory._fallback_events
    instantiation_log,  \* LLMFactory._instantiation_log
    conversation_log,   \* conversation_recorder: the records of the run
    content,            \* content = response.content: the JSON a node's model answered
    parsed,             \* the RiskAssessment the node built from it
    all_citations,      \* challenger_b_node: list(set(all_citations))
    search_tool,        \* what TavilySearch does for each citation
    searched,           \* the citations search_tool.invoke was called for
    search_results_summary, \* challenger_b_node: search_results_summary
    log_objects,        \* the list objects the recorder's ContextVar can hold
    context_log,        \* _conversation_log as each context sees it
    recorder_pc,        \* where each challenger's thread is inside record()
    calls,              \* the record() calls each challenger has completed
    run_records,        \* what get_records() returned at the end of the run
    full_text,          \* the text CitationParser reads, mention by mention
    extracted           \* what each extract_* method returned for it

\* the state of one execution of generator_ensemble_node
ensemble == <<available, generator_configs, tasks, completion_order,
              final_results, fallback_events, instantiation_log,
              conversation_log>>

\* the state of one parse of a model's answer
parsing == <<content, parsed>>

\* one use of CitationParser
citing == <<full_text, extracted>>

\* the conversation recorder under the parallel challengers
recording == <<log_objects, context_log, recorder_pc, calls, run_records>>

\* the state of one citation check of challenger B
searching == <<all_citations, search_tool, searched, search_results_summary>>

vars == <<risk_input, MAX_REVISIONS, pc, draft_assessments, synthesized_draft, critiques,
          revision_count, updates, route, escalation, artifacts, produced,
          rounds, recorded, ensemble, parsing, searching, recording,
          citing>>

----------------------------------------------------------------------------
\* Bounds of the model

\* largest configured value of Config.MAX_REVISIONS that is explored
MaxConfiguredRevisions == 3

\* rounds the runtime executes before it gives up on a run (step budget of
\* workflow.invoke, counted in rounds of three supersteps)
MaxRounds == 2

\* largest size of the generator spec list (Config.GENERATOR_MODELS_WITH_PROVIDERS)
MaxGenerators == 1

\* largest size of the generator spec list whose parallel tasks are explored
MaxSlots == 2

\* largest frequency_score, impact_score and score a model's answer carries
MaxAnswerScore == 6

\* largest final_risk_score a model's answer carries, besides 99
MaxAnswerFinal == 26

\* citations of one draft
MaxCitations == 3

\* record() calls of one challenger in a round
MaxRecords == 2

\* mentions in one text
MaxMentions == 3

----------------------------------------------------------------------------
\* Program constants

\* the literal of "if revision_count >= 3:  # Config.MAX_REVISIONS"
ESCALATION_REVISION_LIMIT == 3

\* the value Config.MAX_REVISIONS has unless it is configured
DEFAULT_MAX_REVISIONS == 3

\* Field(ge=1, le=5) of frequency_score, impact_score and score
SCORE_MAX == 5

\* Field(ge=1, le=25) of final_risk_score
FINAL_RISK_SCORE_MAX == 25

\* _is_critical_risk: synthesized_draft.score >= 4
CRITICAL_LEGACY_SCORE == 4

----------------------------------------------------------------------------
\* Values

\* Python's None, for a string field
None == "None"

\* the risk_input of the run
RiskInput == "risk scenario"

\* Python's None, for synthesized_draft
NoDraft == [absent |-> TRUE]

\* no critique created yet in this round
NoCritique == [absent |-> TRUE]

\* the state has no escalation entry
NoEscalation == [escalated |-> FALSE]

Challengers == <<"challenger_a", "challenger_b", "challenger_c">>

ChallengerNames == {Challengers[i] : i \in 1..3}

\* RiskAssessment, reduced to the fields the graph reads: the legacy score and
\* the classification of the optional breakdown (None: no breakdown)
Assessments ==
    { [score |-> 3, risk_classification |-> None],
      [score |-> 4, risk_classification |-> "Critical"] }

\* what the aggregator's model can synthesize: an assessment of the
\* generators' kinds, or a high legacy score without a breakdown
AggregatedDrafts ==
    Assessments \cup {[score |-> 4, risk_classification |-> None]}

\* parsed JSON answers of a challenger's model: is_valid, recommendation
ChallengerResponses ==
    { [is_valid |-> TRUE,  recommendation |-> "accept"],
      [is_valid |-> TRUE,  recommendation |-> "needs_review"],
      [is_valid |-> FALSE, recommendation |-> "needs_review"] }

\* a model call that raised, or whose answer did not parse
Failed == [failed |-> TRUE]

\* outcomes of the verifier's model call
VerifierAnswers == {"needs_revision_true", "needs_revision_false", "failed"}

\* Critique, reduced to the fields the graph reads
Critique(name, valid, rec) ==
    [challenger_name |-> name, is_valid |-> valid, recommendation |-> rec]

\* the StateSchema value the nodes and the router read
State ==
    [draft_assessments |-> draft_assessments,
     synthesized_draft |-> synthesized_draft,
     critiques         |-> critiques,
     revision_count    |-> revision_count]

----------------------------------------------------------------------------
\* Helpers of the router

\* critiques[-3:] if len(critiques) >= 3 else critiques
RecentCritiques(cs) ==
    IF Len(cs) >= 3 THEN SubSeq(cs, Len(cs) - 2, Len(cs)) ELSE cs

\* c.is_valid and "accept" in c.recommendation.lower(), on the recommendations
\* of the schema: accept, reject, needs_review
Passes(c) == c.is_valid /\ c.recommendation = "accept"

\* not c.is_valid or c.recommendation == "reject"
Rejects(c) == ~c.is_valid \/ c.recommendation = "reject"

PassedCount(cs) == Cardinality({i \in 1..Len(cs) : Passes(cs[i])})

\* passed_count >= total_challengers * 2 / 3
TwoThirds(cs) == 3 * PassedCount(cs) >= 2 * Len(cs)

----------------------------------------------------------------------------
\* utils/escalation_handler.py

\* risk_assessment present and risk_classification.upper() == "CRITICAL", on
\* the classifications Low, Medium, High, Critical
IsCritical(draft) ==
    /\ draft # NoDraft
    /\ draft.risk_classification # None
    /\ draft.risk_classification = "Critical"

MaxRevisionsReason == "Max revisions reached without 2/3 challenger consensus"

CriticalReason == "Critical risk classification requires human validation"

AllRejectReason == "All challengers rejected the assessment"

\* _is_critical_risk without its fallback on the legacy score
is_critical_risk_BreakdownOnly(s) ==
    /\ s.synthesized_draft # NoDraft
    /\ s.synthesized_draft.risk_classification # None
    /\ s.synthesized_draft.risk_classification = "Critical"

\* _is_critical_risk(state): the classification of the breakdown when the
\* draft has one, else the legacy score against 4
is_critical_risk(s) ==
    IF s.synthesized_draft = NoDraft THEN FALSE
    ELSE IF s.synthesized_draft.risk_classification # None
    THEN s.synthesized_draft.risk_classification = "Critical"
    ELSE s.synthesized_draft.score >= CRITICAL_LEGACY_SCORE

\* create_escalation_file(state, reason): the file's reason and priority
create_escalation_file(s, reason) ==
    [reason |-> reason,
     priority |-> IF is_critical_risk(s) THEN "HIGH" ELSE "MEDIUM"]

\* should_escalate without its second condition
should_escalate_NoCritical(s) ==
    LET recent == RecentCritiques(s.critiques) IN
    IF /\ s.revision_count >= ESCALATION_REVISION_LIMIT
       /\ Len(recent) > 0
       /\ ~TwoThirds(recent)
    THEN <<TRUE, MaxRevisionsReason>>
    ELSE IF /\ Len(s.critiques) > 0
            /\ \A i \in 1..Len(recent) : Rejects(recent[i])
    THEN <<TRUE, AllRejectReason>>
    ELSE <<FALSE, "">>

\* should_escalate(state) -> (should_escalate, reason)
should_escalate(s) ==
    LET recent == RecentCritiques(s.critiques) IN
    IF /\ s.revision_count >= ESCALATION_REVISION_LIMIT
       /\ Len(recent) > 0
       /\ ~TwoThirds(recent)
    THEN <<TRUE, MaxRevisionsReason>>
    ELSE IF IsCritical(s.synthesized_draft)
    THEN <<TRUE, CriticalReason>>
    ELSE IF /\ Len(s.critiques) > 0
            /\ \A i \in 1..Len(recent) : Rejects(recent[i])
    THEN <<TRUE, AllRejectReason>>
    ELSE <<FALSE, "">>

----------------------------------------------------------------------------
\* agents/verifier.py

\* verifier_node whose early return at the cap is missing: the cap's increment
\* is followed by the increment of the model's answer
verifier_node_FallThrough(s, ans) ==
    LET atCap == IF s.revision_count >= MAX_REVISIONS
                 THEN s.revision_count + 1 ELSE s.revision_count
        needs_revision ==
            CASE ans = "needs_revision_true"  -> TRUE
              [] ans = "needs_revision_false" -> FALSE
              [] OTHER -> \E i \in 1..Len(s.critiques) : Rejects(s.critiques[i])
    IN  IF s.synthesized_draft = NoDraft THEN s.revision_count + 1
        ELSE IF needs_revision THEN atCap + 1 ELSE atCap

\* verifier_node that restarts the count when no revision is needed
verifier_node_ResetsWhenSettled(s, ans) ==
    IF s.revision_count >= MAX_REVISIONS
    THEN s.revision_count + 1
    ELSE IF s.synthesized_draft = NoDraft
    THEN s.revision_count + 1
    ELSE LET needs_revision ==
                 CASE ans = "needs_revision_true"  -> TRUE
                   [] ans = "needs_revision_false" -> FALSE
                   [] OTHER -> \E i \in 1..Len(s.critiques) : Rejects(s.critiques[i])
         IN  IF needs_revision THEN s.revision_count + 1 ELSE 0

\* verifier_node: the revision_count it returns; ans is the outcome of the
\* model call (not made on the two early returns)
verifier_node(s, ans) ==
    IF s.revision_count >= MAX_REVISIONS
    THEN s.revision_count + 1
    ELSE IF s.synthesized_draft = NoDraft
    THEN s.revision_count + 1
    ELSE LET needs_revision ==
                 CASE ans = "needs_revision_true"  -> TRUE
                   [] ans = "needs_revision_false" -> FALSE
                   [] OTHER -> \E i \in 1..Len(s.critiques) : Rejects(s.critiques[i])
         IN  IF needs_revision THEN s.revision_count + 1 ELSE s.revision_count

\* should_continue whose revision test asks every recent critique to reject
should_continue_AllMustReject(s) ==
    LET recent == RecentCritiques(s.critiques) IN
    IF Len(recent) > 0 /\ TwoThirds(recent)
    THEN "end"
    ELSE IF should_escalate(s)[1]
    THEN "escalate"
    ELSE IF s.revision_count >= MAX_REVISIONS
    THEN "end"
    ELSE IF /\ \A i \in 1..Len(recent) : Rejects(recent[i])
            /\ s.revision_count < MAX_REVISIONS
    THEN "revise"
    ELSE "end"

\* should_continue without the revision cap
should_continue_NoCap(s) ==
    LET recent == RecentCritiques(s.critiques) IN
    IF Len(recent) > 0 /\ TwoThirds(recent)
    THEN "end"
    ELSE IF should_escalate(s)[1]
    THEN "escalate"
    ELSE IF \E i \in 1..Len(recent) : Rejects(recent[i])
    THEN "revise"
    ELSE "end"

\* should_continue with the escalation check ahead of the 2/3 test
should_continue_EscalateFirst(s) ==
    LET recent == RecentCritiques(s.critiques) IN
    IF should_escalate(s)[1]
    THEN "escalate"
    ELSE IF Len(recent) > 0 /\ TwoThirds(recent)
    THEN "end"
    ELSE IF s.revision_count >= MAX_REVISIONS
    THEN "end"
    ELSE IF /\ \E i \in 1..Len(recent) : Rejects(recent[i])
            /\ s.revision_count < MAX_REVISIONS
    THEN "revise"
    ELSE "end"

\* should_continue: the conditional edge after the verifier
should_continue(s) ==
    LET recent == RecentCritiques(s.critiques) IN
    IF Len(recent) > 0 /\ TwoThirds(recent)
    THEN "end"
    ELSE IF should_escalate(s)[1]
    THEN "escalate"
    ELSE IF s.revision_count >= MAX_REVISIONS
    THEN IF should_escalate(s)[1] THEN "escalate" ELSE "end"
    ELSE IF /\ \E i \in 1..Len(recent) : Rejects(recent[i])
            /\ s.revision_count < MAX_REVISIONS
    THEN "revise"
    ELSE "end"

----------------------------------------------------------------------------
\* agents/aggregator.py

\* "Determine if this is a revision cycle": the prompt aggregator_node uses;
\* with no draft_assessments it returns before choosing one
aggregator_mode(s) ==
    IF Len(s.draft_assessments) = 0 THEN "none"
    ELSE IF /\ s.revision_count > 0
            /\ s.synthesized_draft # NoDraft
            /\ Len(s.critiques) > 0
    THEN "revision"
    ELSE "initial"

\* aggregator_node that keeps the state's draft when its model call fails
aggregator_node_KeepsDraft(s, resp) ==
    IF Len(s.draft_assessments) = 0 THEN NoDraft
    ELSE IF resp = Failed THEN s.synthesized_draft ELSE resp

\* aggregator_node: the synthesized_draft it returns; resp is the parsed
\* answer of the model or Failed
aggregator_node(s, resp) ==
    IF Len(s.draft_assessments) = 0
    THEN NoDraft
    ELSE IF resp = Failed
    THEN s.draft_assessments[1]
    ELSE resp

----------------------------------------------------------------------------
\* agents/challenger_a.py, challenger_b.py, challenger_c.py

NoDraftCritique(name) == Critique(name, FALSE, "reject")

\* the critique challenger A or C creates; resp is the parsed answer of its
\* model or Failed
LLMCritique(name, s, resp) ==
    IF s.synthesized_draft = NoDraft
    THEN NoDraftCritique(name)
    ELSE IF resp = Failed
    THEN Critique(name, FALSE, "needs_review")
    ELSE Critique(name, resp.is_valid, resp.recommendation)

\* the citations challenger B finds in the draft and what the searches gave
CitationFindings == {"no_citations", "all_verified", "some_unverified"}

\* the critique challenger B creates
SourceCritique(s, found, resp) ==
    IF s.synthesized_draft = NoDraft
    THEN NoDraftCritique("challenger_b")
    ELSE IF found = "no_citations"
    THEN Critique("challenger_b", TRUE, "accept")
    ELSE IF resp = Failed
    THEN IF found = "some_unverified"
         THEN Critique("challenger_b", FALSE, "needs_review")
         ELSE Critique("challenger_b", TRUE, "accept")
    ELSE Critique("challenger_b", resp.is_valid, resp.recommendation)

\* return {"critiques": critiques + [critique]}
challenger_a_node(s, resp) == s.critiques \o <<LLMCritique("challenger_a", s, resp)>>

challenger_b_node(s, found, resp) == s.critiques \o <<SourceCritique(s, found, resp)>>

challenger_c_node(s, resp) == s.critiques \o <<LLMCritique("challenger_c", s, resp)>>

----------------------------------------------------------------------------
\* utils/llm_factory.py

\* provider families (three of the six)
Providers == {"openai", "anthropic", "google"}

\* generator specs {model, provider, fallback_model, fallback_provider}: the
\* two shapes of Config.GENERATOR_MODELS_WITH_PROVIDERS, a spec whose fallback
\* is not openai, and a non-openai spec without fallback
GeneratorConfigs ==
    { [model |-> "gpt-4o-mini", provider |-> "openai",
       fallback_model |-> None, fallback_provider |-> None],
      [model |-> "claude-3-5-sonnet-20241022", provider |-> "anthropic",
       fallback_model |-> "gpt-4o", fallback_provider |-> "openai"],
      [model |-> "gemini-1.5-pro", provider |-> "google",
       fallback_model |-> "claude-3-5-sonnet-20241022",
       fallback_provider |-> "anthropic"],
      [model |-> "gemini-1.5-pro", provider |-> "google",
       fallback_model |-> None, fallback_provider |-> None] }

\* the dataclass FallbackEvent, without timestamp and reason
FallbackEvent(intended_provider, intended_model, actual_provider, actual_model) ==
    [intended_provider |-> intended_provider, intended_model |-> intended_model,
     actual_provider |-> actual_provider, actual_model |-> actual_model]

\* f"{provider}/{model}"
ModelId(provider, model) == [provider |-> provider, model |-> model]

\* the entry _log_instantiation appends, without timestamp
LogEntry(context, intended_provider, intended_model, actual_provider, actual_model, was_fallback) ==
    [context |-> context,
     intended |-> ModelId(intended_provider, intended_model),
     actual |-> ModelId(actual_provider, actual_model),
     fallback_used |-> was_fallback]

\* _instantiate: TRUE if it returns a client, FALSE if it raises. Every
\* provider but openai raises without key or library; for openai, and for a
\* provider that has both, the client's constructor decides (built).
Instantiates(model, provider, built) ==
    built /\ (provider = "openai" \/ available[provider])

\* create returned (llm, actual_provider, actual_model, was_fallback), having
\* appended events to _fallback_events and log to _instantiation_log
Returned(actual_provider, actual_model, was_fallback, events, log) ==
    [raised |-> FALSE, actual_provider |-> actual_provider,
     actual_model |-> actual_model, was_fallback |-> was_fallback,
     events |-> events, log |-> log]

\* create raised, having appended events to _fallback_events
Raised(events) ==
    [raised |-> TRUE, actual_provider |-> None, actual_model |-> None,
     was_fallback |-> FALSE, events |-> events, log |-> <<>>]

\* create with the resolution order of the documentation: the declared
\* fallback only if its provider is available, then the universal fallback
create_UniversalAfterFallback(model, provider, fallback_model, fallback_provider, context, built, fallback_built) ==
    IF available[provider] /\ Instantiates(model, provider, built)
    THEN Returned(provider, model, FALSE, <<>>,
                  <<LogEntry(context, provider, model, provider, model, FALSE)>>)
    ELSE IF /\ fallback_model # None /\ fallback_provider # None
            /\ available[fallback_provider]
            /\ Instantiates(fallback_model, fallback_provider, fallback_built)
    THEN Returned(fallback_provider, fallback_model, TRUE,
                  <<FallbackEvent(provider, model, fallback_provider,
                                  fallback_model)>>,
                  <<LogEntry(context, provider, model, fallback_provider,
                             fallback_model, TRUE)>>)
    ELSE IF /\ provider # "openai" /\ available["openai"]
            /\ Instantiates("gpt-4o", "openai", fallback_built)
    THEN Returned("openai", "gpt-4o", TRUE,
                  <<FallbackEvent(provider, model, "openai", "gpt-4o")>>,
                  <<LogEntry(context, provider, model, "openai", "gpt-4o",
                             TRUE)>>)
    ELSE Raised(<<>>)

\* LLMFactory.create; built and fallback_built are the outcomes of the
\* constructors of the requested and of the substituted client
create(model, provider, fallback_model, fallback_provider, context, built, fallback_built) ==
    IF available[provider] /\ Instantiates(model, provider, built)
    THEN Returned(provider, model, FALSE, <<>>,
                  <<LogEntry(context, provider, model, provider, model, FALSE)>>)
    ELSE IF fallback_model # None /\ fallback_provider # None
    THEN LET event == FallbackEvent(provider, model, fallback_provider,
                                    fallback_model) IN
         IF Instantiates(fallback_model, fallback_provider, fallback_built)
         THEN Returned(fallback_provider, fallback_model, TRUE, <<event>>,
                       <<LogEntry(context, provider, model, fallback_provider,
                                  fallback_model, TRUE)>>)
         ELSE Raised(<<event>>)
    ELSE IF provider # "openai" /\ available["openai"]
    THEN LET event == FallbackEvent(provider, model, "openai", "gpt-4o") IN
         IF Instantiates("gpt-4o", "openai", fallback_built)
         THEN Returned("openai", "gpt-4o", TRUE, <<event>>,
                       <<LogEntry(context, provider, model, "openai", "gpt-4o",
                                  TRUE)>>)
         ELSE Raised(<<event>>)
    ELSE Raised(<<>>)

----------------------------------------------------------------------------
\* agents/generator_ensemble.py

\* placeholders of GENERATOR_PROMPT
GENERATOR_PROMPT == {"reference_sources", "risk_input"}

\* str.format(**arguments): TRUE if it returns, FALSE if it raises KeyError
Formats(template, arguments) == template \subseteq arguments

\* a response of the model that is not the JSON of an assessment
Unparseable == [unparseable |-> TRUE]

\* the task raised: it has no result
NoAssessment == [absent |-> TRUE]

\* record(stage, role, model, prompt, response, ...): the ConversationRecord;
\* response is "ERROR: " for f"ERROR: {str(e)}" and "answer" otherwise
Record(stage, model, response) ==
    [stage |-> stage, model |-> model, response |-> response]

\* RiskAssessment of a generator; error marks the suffix " [ERROR]" of model_name
RiskAssessment(provider, model, error, score, risk_classification) ==
    [model_name |-> [provider |-> provider, model |-> model, error |-> error],
     score |-> score, risk_classification |-> risk_classification]

\* the default assessment of a failed slot
ErrorAssessment(model_config) ==
    RiskAssessment(model_config.provider, model_config.model, TRUE, 3, None)

\* the except branch of _generate_assessment: it formats the prompt of the
\* error record with risk_input alone, records and returns the default
\* assessment; if formatting raises, the coroutine raises
GenerateFailed(model_config) ==
    IF Formats(GENERATOR_PROMPT, {"risk_input"})
    THEN [raised |-> FALSE,
          records |-> <<Record("generator",
                               ModelId(model_config.provider, model_config.model),
                               "ERROR: ")>>,
          result |-> ErrorAssessment(model_config)]
    ELSE [raised |-> TRUE, records |-> <<>>, result |-> NoAssessment]

\* GenerateAnswered that names the requested model in the assessment
GenerateAnswered_RequestedName(model_config, created, response) ==
    LET answered == <<Record("generator",
                             [provider |-> created.actual_provider,
                              model |-> created.actual_model,
                              fallback |-> created.was_fallback],
                             "answer")>>
    IN  IF response = Unparseable
        THEN LET failed == GenerateFailed(model_config) IN
             [failed EXCEPT !.records = answered \o failed.records]
        ELSE [raised |-> FALSE, records |-> answered,
              result |-> RiskAssessment(model_config.provider,
                                        model_config.model, FALSE,
                                        response.score,
                                        response.risk_classification)]

\* the try branch of _generate_assessment after the model answered
GenerateAnswered(model_config, created, response) ==
    LET answered == <<Record("generator",
                             [provider |-> created.actual_provider,
                              model |-> created.actual_model,
                              fallback |-> created.was_fallback],
                             "answer")>>
    IN  IF response = Unparseable
        THEN LET failed == GenerateFailed(model_config) IN
             [failed EXCEPT !.records = answered \o failed.records]
        ELSE [raised |-> FALSE, records |-> answered,
              result |-> RiskAssessment(created.actual_provider,
                                        created.actual_model, FALSE,
                                        response.score,
                                        response.risk_classification)]

\* states of a coroutine of run_all
Pending == [status |-> "pending"]

Awaiting(created) == [status |-> "awaiting", created |-> created]

Done(created, raised, result) ==
    [status |-> "done", created |-> created, raised |-> raised,
     result |-> result]

\* asyncio.gather in the order the calls completed
gather_AsCompleted(ts, order) == [k \in 1..Len(ts) |-> ts[order[k]]]

\* asyncio.gather(*awaitables, return_exceptions=True): the outcomes in the
\* order of the awaitables
gather(ts, order) == [i \in 1..Len(ts) |-> ts[i]]

\* run_all has not returned
NotReturned == [returned |-> FALSE, assessments |-> <<>>]

\* the ensemble does not run
EnsembleIdle ==
    /\ available = [p \in Providers |-> TRUE]
    /\ generator_configs = <<>>
    /\ tasks = <<>>
    /\ completion_order = <<>>
    /\ final_results = NotReturned
    /\ fallback_events = <<>>
    /\ instantiation_log = <<>>
    /\ conversation_log = <<>>

----------------------------------------------------------------------------
\* The graph (graph.py) and the run (main.py)

----------------------------------------------------------------------------
\* Parsing of a model's answer (agents/generator_ensemble.py, agents/aggregator.py)

\* risk_classification: Low/Medium/High/Critical
Classifications == {"Low", "Medium", "High", "Critical"}

\* the answer has no "risk_assessment" key
NoBlock == [present |-> FALSE]

\* the "risk_assessment" objects of an answer
Blocks ==
    [present : {TRUE},
     frequency_score : 0..MaxAnswerScore,
     frequency_rationale : {"frequency rationale"},
     impact_score : 0..MaxAnswerScore,
     impact_rationale : {"impact rationale"},
     final_risk_score : (0..MaxAnswerFinal) \cup {99},
     risk_classification : Classifications]

\* data = json.loads(content), reduced to "score" and "risk_assessment"
Answers == [score : 0..MaxAnswerScore, risk_assessment : Blocks \cup {NoBlock}]

\* risk_assessment = None
NoBreakdown == [absent |-> TRUE]

\* nothing has been parsed
NotParsed == [built |-> FALSE]

\* RiskAssessment(...) raised a ValidationError
ParseRaised == [raised |-> TRUE]

\* the rubric of the prompts: Low 1-5, Medium 6-11, High 12-19, Critical 20-25
Classification(final_risk_score) ==
    IF final_risk_score <= 5 THEN "Low"
    ELSE IF final_risk_score <= 11 THEN "Medium"
    ELSE IF final_risk_score <= 19 THEN "High"
    ELSE "Critical"

\* the legacy score the prompts ask for: 1-5=1, 6-10=2, 11-15=3, 16-20=4, 21-25=5
LegacyScore(final_risk_score) == (final_risk_score + 4) \div 5

\* the Field constraints of RiskAssessmentBreakdown
Validates(block) ==
    /\ block.frequency_score \in 1..SCORE_MAX
    /\ block.impact_score \in 1..SCORE_MAX
    /\ block.final_risk_score \in 1..FINAL_RISK_SCORE_MAX

\* the breakdown extraction without its auto-correction
parse_breakdown_AsAnswered(data) ==
    LET block == data.risk_assessment IN
    IF ~block.present THEN NoBreakdown
    ELSE IF ~Validates(block) THEN NoBreakdown
    ELSE [frequency_score |-> block.frequency_score,
          frequency_rationale |-> block.frequency_rationale,
          impact_score |-> block.impact_score,
          impact_rationale |-> block.impact_rationale,
          final_risk_score |-> block.final_risk_score,
          risk_classification |-> block.risk_classification]

\* "Extract risk_assessment breakdown if available": the model is built from
\* the block, a ValidationError leaves the breakdown None, and a
\* final_risk_score that is not the product is replaced by the product
parse_breakdown(data) ==
    LET block == data.risk_assessment IN
    IF ~block.present THEN NoBreakdown
    ELSE IF ~Validates(block) THEN NoBreakdown
    ELSE LET expected_final == block.frequency_score * block.impact_score IN
         [frequency_score |-> block.frequency_score,
          frequency_rationale |-> block.frequency_rationale,
          impact_score |-> block.impact_score,
          impact_rationale |-> block.impact_rationale,
          final_risk_score |-> IF block.final_risk_score # expected_final
                               THEN expected_final
                               ELSE block.final_risk_score,
          risk_classification |-> block.risk_classification]

\* RiskAssessment(model_name=..., score=data["score"], ...,
\* risk_assessment=risk_assessment_breakdown)
parse_assessment(data, model_name) ==
    IF data.score \notin 1..SCORE_MAX THEN ParseRaised
    ELSE [model_name |-> model_name, score |-> data.score,
          risk_assessment |-> parse_breakdown(data)]

\* no answer is being parsed
ParseIdle ==
    /\ content = [score |-> 3, risk_assessment |-> NoBlock]
    /\ parsed = NotParsed

----------------------------------------------------------------------------
\* Citation search of challenger B (agents/challenger_b.py)

\* citations a draft can carry: a CVE, a standard, a regulation
Citations == {"CVE-2021-44228", "ISO 27001", "GDPR"}

\* what search_tool.invoke and analyze_search_results give for a citation
SearchOutcomes == {"verified", "unverified", "raises"}

\* list(set(all_citations)): the citations without duplicates, in some order
CitationLists ==
    {cs \in UNION {[1..n -> Citations] : n \in 1..MaxCitations} :
        \A i, j \in 1..Len(cs) : i # j => cs[i] # cs[j]}

\* the entry search_results_summary gets for one searched citation
SummaryEntry(citation, outcome) ==
    [citation |-> citation,
     verified |-> outcome = "verified",
     error |-> outcome = "raises"]

\* "Search for each citation and collect results": the for loop only sets the
\* progress bar's postfix; the try block follows the loop and runs once, with
\* citation bound to the last element of the list
search_citations(cits, tool) ==
    LET citation == cits[Len(cits)] IN
    [searched |-> <<citation>>,
     summary |-> <<SummaryEntry(citation, tool[citation])>>]

\* challenger B is not checking citations
SearchIdle ==
    /\ all_citations = <<>>
    /\ search_tool = [c \in Citations |-> "verified"]
    /\ searched = <<>>
    /\ search_results_summary = <<>>

----------------------------------------------------------------------------
\* utils/conversation_recorder.py

\* the contexts: the one of run_risk_assessment and one per challenger thread
Contexts == {"main"} \cup ChallengerNames

\* the list objects: the ContextVar's default, the list of start_run, the
\* list end_run leaves behind
LogObjects == {"default_list", "run_list", "fresh_list"}

\* get_records() has not been called
NotRead == [read |-> FALSE, records |-> <<>>]

\* a thread that is not inside record()
OutsideRecord == [at |-> "outside", log |-> None]

\* a branch started without the caller's context: the ContextVar is unset
\* there and get() gives its default
copy_context_Unset(log) == "default_list"

\* the runtime starts each parallel branch in a copy of the caller's context:
\* the copy binds _conversation_log to the same list object
copy_context(log) == log

\* the entry of the k-th record() call of a challenger
Entry(stage, k) == [stage |-> stage, call |-> k]

\* log.append(entry)
list_append(objects, log, entry) ==
    [objects EXCEPT ![log] = Append(@, entry)]

\* the recorder before start_run
RecorderIdle ==
    /\ log_objects = [o \in LogObjects |-> <<>>]
    /\ context_log = [c \in Contexts |-> "default_list"]
    /\ recorder_pc = [c \in ChallengerNames |-> OutsideRecord]
    /\ calls = [c \in ChallengerNames |-> 0]
    /\ run_records = NotRead

----------------------------------------------------------------------------
\* utils/citation_parser.py

\* pieces of a text: mentions of a CVE, of a standard and of regulations in
\* the spellings the patterns accept, and a word none of them matches
Mentions ==
    {"CVE-2021-44228", "cve-2021-44228", "ISO 27001", "iso 27001",
     "PSTI Act 2022", "EU Regulation 2016/679", "lock"}

Texts == UNION {[1..n -> Mentions] : n \in 0..MaxMentions}

\* str.upper() on the matches of the mentions
Upper(match) ==
    CASE match = "cve-2021-44228" -> "CVE-2021-44228"
      [] match = "iso 27001"      -> "ISO 27001"
      [] OTHER                    -> match

\* match.group().strip() of re.finditer(pattern, mention, re.IGNORECASE)
Match(pattern, mention) ==
    CASE pattern = "CVE_PATTERN" /\ mention \in {"CVE-2021-44228", "cve-2021-44228"}
             -> <<mention>>
      [] pattern = "ISO_STANDARD_PATTERN" /\ mention \in {"ISO 27001", "iso 27001"}
             -> <<mention>>
      [] pattern = "PSTI_PATTERN" /\ mention = "PSTI Act 2022"
             -> <<"PSTI Act 2022">>
      [] pattern = "UK_ACT_PATTERN" /\ mention = "PSTI Act 2022"
             -> <<"Act 2022">>
      [] pattern = "UK_ACT_PATTERN" /\ mention = "EU Regulation 2016/679"
             -> <<"Regulation 2016">>
      [] pattern = "REGULATION_PATTERN" /\ mention = "EU Regulation 2016/679"
             -> <<"EU Regulation 2016/679">>
      [] OTHER -> <<>>

\* the matches of a pattern in a text, in the order of the text
RECURSIVE finditer(_, _)
finditer(pattern, text) ==
    IF text = <<>> THEN <<>>
    ELSE Match(pattern, Head(text)) \o finditer(pattern, Tail(text))

\* [match.group().strip().upper() for match in matches]
extract_cves(text) ==
    LET matches == finditer("CVE_PATTERN", text) IN
    [k \in 1..Len(matches) |-> Upper(matches[k])]

\* [match.group().strip().upper() for match in matches]
extract_standards(text) ==
    LET matches == finditer("ISO_STANDARD_PATTERN", text) IN
    [k \in 1..Len(matches) |-> Upper(matches[k])]

\* set(regulations): "PSTI Act 2022" per PSTI match, then the matches of the
\* two other patterns
regulations(text) ==
    LET all == finditer("PSTI_PATTERN", text) \o finditer("UK_ACT_PATTERN", text)
                   \o finditer("REGULATION_PATTERN", text)
    IN  {all[k] : k \in 1..Len(all)}

\* list(set(regulations)): the lists the set can be turned into
extract_regulations(text) ==
    LET found == regulations(text) IN
    {l \in [1..Cardinality(found) -> found] : {l[k] : k \in 1..Len(l)} = found}

\* an extract_* method that has not been called
NotExtracted == [called |-> FALSE, citations |-> <<>>]

\* what an extract_* method returned
Extracted(citations) == [called |-> TRUE, citations |-> citations]

Extractors == {"extract_cves", "extract_regulations", "extract_standards"}

\* no text is being parsed
CitationIdle ==
    /\ full_text = <<>>
    /\ extracted = [m \in Extractors |-> NotExtracted]

\* the stage a node adds to the stages of the log if it calls record
Records(stage, called) == IF called THEN {stage} ELSE {}

\* generator_ensemble_node calls record for the slots whose model answered
\* (_generate_assessment's try branch); answered: some slot's model answered.
\* An assessment with a breakdown is an answer.
generator_records(drafts, answered) ==
    /\ answered => Len(drafts) > 0
    /\ (\E i \in 1..Len(drafts) : drafts[i].risk_classification # None) => answered

\* aggregator_node calls record, in its try or its except branch, unless it
\* returns early on empty draft_assessments
aggregator_records(s) == Len(s.draft_assessments) > 0

\* challenger_a_node and challenger_c_node call record, in the try or the
\* except branch, unless they return early without synthesized_draft
challenger_records(s) == s.synthesized_draft # NoDraft

\* challenger_b_node also returns early, without record, when the draft has
\* no citation
challenger_b_records(s, found) ==
    s.synthesized_draft # NoDraft /\ found # "no_citations"

\* verifier_node calls record, in the try or the except branch, unless it
\* takes one of its two early returns
verifier_records(s) ==
    ~(s.revision_count >= MAX_REVISIONS) /\ s.synthesized_draft # NoDraft

NoUpdates == [c \in ChallengerNames |-> <<>>]

NothingProduced == [c \in ChallengerNames |-> NoCritique]

Init ==
    /\ MAX_REVISIONS \in 0..MaxConfiguredRevisions
    /\ risk_input = RiskInput
    /\ pc = "generator_ensemble"
    /\ draft_assessments = <<>>
    /\ synthesized_draft = NoDraft
    /\ critiques = <<>>
    /\ revision_count = 0
    /\ updates = NoUpdates
    /\ route = None
    /\ escalation = NoEscalation
    /\ artifacts = <<>>
    /\ produced = NothingProduced
    /\ rounds = 0
    /\ recorded = {}
    /\ EnsembleIdle
    /\ ParseIdle
    /\ SearchIdle
    /\ RecorderIdle
    /\ CitationIdle

\* generator_ensemble_node: one assessment per generator spec
Generator ==
    /\ pc = "generator_ensemble"
    /\ \E n \in 0..MaxGenerators :
           draft_assessments' \in [1..n -> Assessments]
    /\ \E answered \in BOOLEAN :
           /\ generator_records(draft_assessments', answered)
           /\ recorded' = recorded \cup Records("generator", answered)
    /\ pc' = "aggregator"
    /\ UNCHANGED <<citing, recording, risk_input, searching, parsing, ensemble, MAX_REVISIONS, synthesized_draft, critiques, revision_count,
                   updates, route, escalation, artifacts, produced, rounds>>

\* aggregator_node, then the fan-out to the three challengers
Aggregator ==
    /\ pc = "aggregator"
    /\ rounds < MaxRounds
    /\ \E resp \in AggregatedDrafts \cup {Failed} :
           synthesized_draft' = aggregator_node(State, resp)
    /\ recorded' = recorded \cup Records("aggregator", aggregator_records(State))
    /\ pc' = "challengers"
    /\ updates' = NoUpdates
    /\ produced' = NothingProduced
    /\ UNCHANGED <<citing, recording, risk_input, searching, parsing, ensemble, MAX_REVISIONS, draft_assessments, critiques, revision_count,
                   route, escalation, artifacts, rounds>>

\* workflow.invoke gives a run a budget of supersteps; a run that is still
\* routed 'revise' when the budget is used up leaves invoke with
\* GraphRecursionError and reaches neither END nor the escalation node
RecursionLimit ==
    /\ pc = "aggregator"
    /\ rounds >= MaxRounds
    /\ pc' = "aborted"
    /\ UNCHANGED <<citing, recording, risk_input, searching, parsing, recorded, ensemble, MAX_REVISIONS, draft_assessments, synthesized_draft, critiques,
                   revision_count, updates, route, escalation, artifacts,
                   produced, rounds>>

Last(seq) == seq[Len(seq)]

ChallengerWrites(name, update) ==
    /\ updates' = [updates EXCEPT ![name] = update]
    /\ produced' = [produced EXCEPT ![name] = Last(update)]
    /\ UNCHANGED <<citing, recording, risk_input, searching, parsing, ensemble, MAX_REVISIONS, pc, draft_assessments, synthesized_draft,
                   critiques, revision_count, route, escalation, artifacts,
                   rounds>>

ChallengerA ==
    /\ pc = "challengers"
    /\ updates["challenger_a"] = <<>>
    /\ \E resp \in ChallengerResponses \cup {Failed} :
           ChallengerWrites("challenger_a", challenger_a_node(State, resp))
    /\ recorded' = recorded \cup Records("challenger_a", challenger_records(State))

ChallengerB ==
    /\ pc = "challengers"
    /\ updates["challenger_b"] = <<>>
    /\ \E found \in CitationFindings, resp \in ChallengerResponses \cup {Failed} :
           /\ ChallengerWrites("challenger_b", challenger_b_node(State, found, resp))
           /\ recorded' = recorded \cup
                  Records("challenger_b", challenger_b_records(State, found))

ChallengerC ==
    /\ pc = "challengers"
    /\ updates["challenger_c"] = <<>>
    /\ \E resp \in ChallengerResponses \cup {Failed} :
           ChallengerWrites("challenger_c", challenger_c_node(State, resp))
    /\ recorded' = recorded \cup Records("challenger_c", challenger_records(State))

\* the join before the verifier: the runtime applies the three writes to the
\* critiques channel with its reducer (operator.add), in the order of the nodes
Merge(cs, ups) ==
    cs \o ups["challenger_a"] \o ups["challenger_b"] \o ups["challenger_c"]

\* a join that lets the verifier start after the first branch
Joined_AnyBranch(ups) == \E c \in ChallengerNames : ups[c] # <<>>

\* the three edges challenger_* -> verifier: the verifier is triggered in the
\* superstep after the one in which the three branches ran, when all of them
\* have written
Joined(ups) == \A c \in ChallengerNames : ups[c] # <<>>

FanIn ==
    /\ pc = "challengers"
    /\ Joined(updates)
    /\ critiques' = Merge(critiques, updates)
    /\ updates' = NoUpdates
    /\ rounds' = rounds + 1
    /\ pc' = "verifier"
    /\ UNCHANGED <<citing, recording, risk_input, searching, parsing, recorded, ensemble, MAX_REVISIONS, draft_assessments, synthesized_draft,
                   revision_count, route, escalation, artifacts, produced>>

RouteTarget(r) ==
    CASE r = "revise"   -> "aggregator"
      [] r = "escalate" -> "escalation"
      [] OTHER          -> "END"

\* verifier_node, then the conditional edge should_continue on the new state
Verifier ==
    /\ pc = "verifier"
    /\ \E ans \in VerifierAnswers :
           revision_count' = verifier_node(State, ans)
    /\ route' = should_continue([State EXCEPT !.revision_count = revision_count'])
    /\ recorded' = recorded \cup Records("verifier", verifier_records(State))
    /\ pc' = RouteTarget(route')
    /\ UNCHANGED <<citing, recording, risk_input, searching, parsing, ensemble, MAX_REVISIONS, draft_assessments, synthesized_draft, critiques,
                   updates, escalation, artifacts, produced, rounds>>

\* the keys of StateSchema: the channels of StateGraph(StateSchema)
StateSchemaKeys ==
    {"risk_input", "draft_assessments", "synthesized_draft", "critiques",
     "revision_count"}

\* the "escalation" entry of the state the graph returns: a key of a node's
\* return that is no channel of the graph is not written
ReturnedEscalation ==
    IF "escalation" \in StateSchemaKeys THEN escalation ELSE NoEscalation

\* escalation_node, then the edge to END
Escalation ==
    /\ pc = "escalation"
    /\ LET r == should_escalate(State) IN
         IF r[1]
         THEN /\ artifacts' = Append(artifacts, create_escalation_file(State, r[2]))
              /\ escalation' = [escalated |-> TRUE, reason |-> r[2]]
              /\ recorded' = recorded \cup {"escalation"}
         ELSE UNCHANGED <<artifacts, escalation, recorded>>
    /\ pc' = "END"
    /\ UNCHANGED <<citing, recording, risk_input, searching, parsing, ensemble, MAX_REVISIONS, draft_assessments, synthesized_draft, critiques,
                   revision_count, updates, route, produced, rounds>>

Next ==
    \/ Generator
    \/ Aggregator
    \/ RecursionLimit
    \/ ChallengerA
    \/ ChallengerB
    \/ ChallengerC
    \/ FanIn
    \/ Verifier
    \/ Escalation

Spec == Init /\ [][Next]_vars

\* the runtime keeps executing a run that has a node to execute
FairSpec == Spec /\ WF_vars(Next)

----------------------------------------------------------------------------
----------------------------------------------------------------------------
\* One execution of generator_ensemble_node

workflow == <<risk_input, MAX_REVISIONS, pc, draft_assessments, synthesized_draft,
              critiques, revision_count, updates, route, escalation,
              artifacts, produced, rounds, recorded>>

EnsembleInit ==
    /\ MAX_REVISIONS = DEFAULT_MAX_REVISIONS
    /\ risk_input = RiskInput
    /\ pc = "generator_ensemble"
    /\ draft_assessments = <<>>
    /\ synthesized_draft = NoDraft
    /\ critiques = <<>>
    /\ revision_count = 0
    /\ updates = NoUpdates
    /\ route = None
    /\ escalation = NoEscalation
    /\ artifacts = <<>>
    /\ produced = NothingProduced
    /\ rounds = 0
    /\ recorded = {}
    /\ available \in [Providers -> BOOLEAN]
    /\ \E n \in 0..MaxSlots : generator_configs \in [1..n -> GeneratorConfigs]
    /\ tasks = [i \in 1..Len(generator_configs) |-> Pending]
    /\ completion_order = <<>>
    /\ final_results = NotReturned
    /\ fallback_events = <<>>
    /\ instantiation_log = <<>>
    /\ conversation_log = <<>>
    /\ ParseIdle
    /\ SearchIdle
    /\ RecorderIdle
    /\ CitationIdle

\* a coroutine of run_all runs up to its first await: LLMFactory.create, then
\* llm.ainvoke is pending, or the except branch if create raised. The event
\* loop starts the coroutines in the order of the list.
StartTask ==
    \E i \in 1..Len(tasks) : \E built, fallback_built \in BOOLEAN :
        /\ final_results = NotReturned
        /\ tasks[i] = Pending
        /\ \A j \in 1..(i - 1) : tasks[j] # Pending
        /\ LET model_config == generator_configs[i]
               created == create(model_config.model, model_config.provider,
                                 model_config.fallback_model,
                                 model_config.fallback_provider, i - 1,
                                 built, fallback_built)
               failed == GenerateFailed(model_config)
           IN  /\ fallback_events' = fallback_events \o created.events
               /\ instantiation_log' = instantiation_log \o created.log
               /\ IF created.raised
                  THEN /\ tasks' = [tasks EXCEPT ![i] =
                                       Done(created, failed.raised, failed.result)]
                       /\ conversation_log' = conversation_log \o failed.records
                       /\ completion_order' = Append(completion_order, i)
                  ELSE /\ tasks' = [tasks EXCEPT ![i] = Awaiting(created)]
                       /\ UNCHANGED <<conversation_log, completion_order>>
        /\ UNCHANGED <<citing, recording, risk_input, searching, parsing, workflow, available, generator_configs, final_results>>

\* llm.ainvoke of a coroutine returns or raises, and the coroutine runs to its end
CompleteTask ==
    \E i \in 1..Len(tasks) : \E response \in Assessments \cup {Unparseable, Failed} :
        /\ tasks[i].status = "awaiting"
        /\ LET model_config == generator_configs[i]
               created == tasks[i].created
               outcome == IF response = Failed
                          THEN GenerateFailed(model_config)
                          ELSE GenerateAnswered(model_config, created, response)
           IN  /\ tasks' = [tasks EXCEPT ![i] =
                               Done(created, outcome.raised, outcome.result)]
               /\ conversation_log' = conversation_log \o outcome.records
        /\ completion_order' = Append(completion_order, i)
        /\ UNCHANGED <<citing, recording, risk_input, searching, parsing, workflow, available, generator_configs, final_results,
                       fallback_events, instantiation_log>>

\* run_all after the join: an exception becomes the default assessment of
\* the spec at its index
Join ==
    /\ final_results = NotReturned
    /\ \A i \in 1..Len(tasks) : tasks[i].status = "done"
    /\ LET results == gather(tasks, completion_order) IN
       final_results' =
           [returned |-> TRUE,
            assessments |->
                [i \in 1..Len(results) |->
                    IF results[i].raised
                    THEN ErrorAssessment(generator_configs[i])
                    ELSE results[i].result]]
    /\ UNCHANGED <<citing, recording, risk_input, searching, parsing, workflow, available, generator_configs, tasks,
                   completion_order, fallback_events, instantiation_log,
                   conversation_log>>

EnsembleNext ==
    \/ StartTask
    \/ CompleteTask
    \/ Join

EnsembleSpec == EnsembleInit /\ [][EnsembleNext]_vars

----------------------------------------------------------------------------
----------------------------------------------------------------------------
\* One parse of a model's answer

\* a run that has not started
RunNotStarted ==
    /\ MAX_REVISIONS = DEFAULT_MAX_REVISIONS
    /\ risk_input = RiskInput
    /\ pc = "generator_ensemble"
    /\ draft_assessments = <<>>
    /\ synthesized_draft = NoDraft
    /\ critiques = <<>>
    /\ revision_count = 0
    /\ updates = NoUpdates
    /\ route = None
    /\ escalation = NoEscalation
    /\ artifacts = <<>>
    /\ produced = NothingProduced
    /\ rounds = 0
    /\ recorded = {}

ParseInit ==
    /\ RunNotStarted
    /\ EnsembleIdle
    /\ content \in Answers
    /\ parsed = NotParsed
    /\ SearchIdle
    /\ RecorderIdle
    /\ CitationIdle

\* _generate_assessment builds the assessment of its model's answer
ParseGenerated ==
    /\ parsed = NotParsed
    /\ parsed' = parse_assessment(content, "generator")
    /\ UNCHANGED <<citing, recording, searching, workflow, ensemble, content>>

\* aggregator_node builds the synthesized draft of its model's answer
ParseAggregated ==
    /\ parsed = NotParsed
    /\ parsed' = parse_assessment(content, "aggregated")
    /\ UNCHANGED <<citing, recording, searching, workflow, ensemble, content>>

ParseNext ==
    \/ ParseGenerated
    \/ ParseAggregated

ParseSpec == ParseInit /\ [][ParseNext]_vars

----------------------------------------------------------------------------
\* One citation check of challenger B

SearchInit ==
    /\ RunNotStarted
    /\ EnsembleIdle
    /\ ParseIdle
    /\ all_citations \in CitationLists
    /\ search_tool \in [Citations -> SearchOutcomes]
    /\ searched = <<>>
    /\ search_results_summary = <<>>
    /\ RecorderIdle
    /\ CitationIdle

\* challenger_b_node searches its citations
SearchCitations ==
    /\ search_results_summary = <<>>
    /\ LET r == search_citations(all_citations, search_tool) IN
         /\ searched' = r.searched
         /\ search_results_summary' = r.summary
    /\ UNCHANGED <<citing, recording, workflow, ensemble, parsing, all_citations, search_tool>>

SearchNext == SearchCitations

SearchSpec == SearchInit /\ [][SearchNext]_vars

----------------------------------------------------------------------------
\* The recorder under the three parallel challengers

\* after start_run() and the fan-out: _conversation_log.set([]) in the main
\* context, each challenger in a copy of it
RecorderInit ==
    /\ RunNotStarted
    /\ EnsembleIdle
    /\ ParseIdle
    /\ SearchIdle
    /\ CitationIdle
    /\ log_objects = [o \in LogObjects |-> <<>>]
    /\ context_log = [c \in Contexts |->
                         IF c = "main" THEN "run_list" ELSE copy_context("run_list")]
    /\ recorder_pc = [c \in ChallengerNames |-> OutsideRecord]
    /\ calls = [c \in ChallengerNames |-> 0]
    /\ run_records = NotRead

\* record(): log = _conversation_log.get()
RecordGet ==
    \E c \in ChallengerNames :
        /\ run_records = NotRead
        /\ recorder_pc[c] = OutsideRecord
        /\ calls[c] < MaxRecords
        /\ recorder_pc' = [recorder_pc EXCEPT ![c] = [at |-> "got", log |-> context_log[c]]]
        /\ UNCHANGED <<citing, workflow, ensemble, parsing, searching, log_objects,
                       context_log, calls, run_records>>

\* record(): log.append(entry)
RecordAppend ==
    \E c \in ChallengerNames :
        /\ recorder_pc[c].at = "got"
        /\ log_objects' = list_append(log_objects, recorder_pc[c].log,
                                      Entry(c, calls[c] + 1))
        /\ recorder_pc' = [recorder_pc EXCEPT ![c].at = "appended"]
        /\ UNCHANGED <<citing, workflow, ensemble, parsing, searching, context_log,
                       calls, run_records>>

\* record(): _conversation_log.set(log), and the call returns
RecordSet ==
    \E c \in ChallengerNames :
        /\ recorder_pc[c].at = "appended"
        /\ context_log' = [context_log EXCEPT ![c] = recorder_pc[c].log]
        /\ calls' = [calls EXCEPT ![c] = @ + 1]
        /\ recorder_pc' = [recorder_pc EXCEPT ![c] = OutsideRecord]
        /\ UNCHANGED <<citing, workflow, ensemble, parsing, searching, log_objects,
                       run_records>>

\* the run ends after the branches have joined: get_records() in the main
\* context, then end_run() sets a new list
EndRun ==
    /\ run_records = NotRead
    /\ \A c \in ChallengerNames : recorder_pc[c] = OutsideRecord
    /\ run_records' = [read |-> TRUE,
                        records |-> log_objects[context_log["main"]]]
    /\ context_log' = [context_log EXCEPT !["main"] = "fresh_list"]
    /\ UNCHANGED <<citing, workflow, ensemble, parsing, searching, log_objects,
                   recorder_pc, calls>>

RecorderNext ==
    \/ RecordGet
    \/ RecordAppend
    \/ RecordSet
    \/ EndRun

RecorderSpec == RecorderInit /\ [][RecorderNext]_vars

----------------------------------------------------------------------------
\* One use of CitationParser on a text

CitationInit ==
    /\ RunNotStarted
    /\ EnsembleIdle
    /\ ParseIdle
    /\ SearchIdle
    /\ RecorderIdle
    /\ full_text \in Texts
    /\ extracted = [m \in Extractors |-> NotExtracted]

\* the UNCHANGED of a call of one method
ExtractorFrame ==
    UNCHANGED <<workflow, ensemble, parsing, searching, recording, full_text>>

\* parser.extract_cves(full_text)
ExtractCves ==
    /\ ~extracted["extract_cves"].called
    /\ extracted' = [extracted EXCEPT
                        !["extract_cves"] = Extracted(extract_cves(full_text))]
    /\ ExtractorFrame

\* parser.extract_regulations(full_text)
ExtractRegulations ==
    /\ ~extracted["extract_regulations"].called
    /\ \E l \in extract_regulations(full_text) :
           extracted' = [extracted EXCEPT !["extract_regulations"] = Extracted(l)]
    /\ ExtractorFrame

\* parser.extract_standards(full_text)
ExtractStandards ==
    /\ ~extracted["extract_standards"].called
    /\ extracted' = [extracted EXCEPT
                        !["extract_standards"] = Extracted(extract_standards(full_text))]
    /\ ExtractorFrame

CitationNext ==
    \/ ExtractCves
    \/ ExtractRegulations
    \/ ExtractStandards

CitationSpec == CitationInit /\ [][CitationNext]_vars

\* Vocabulary of the properties

\* the run reached END (directly or through the escalation node)
Terminal == pc = "END"

\* the conditional edge has been evaluated on the critiques the state holds
Routed == route # None /\ pc # "verifier"

\* the three challengers of the current round have run and their writes are merged
RoundMerged ==
    /\ \A c \in ChallengerNames : produced[c] # NoCritique
    /\ \A c \in ChallengerNames : updates[c] = <<>>

\* the critiques the challengers created in the current round, as [A, B, C]
ProducedRound == [i \in 1..3 |-> produced[Challengers[i]]]

EndApproved ==
    /\ Terminal
    /\ route = "end"
    /\ TwoThirds(RecentCritiques(critiques))

EndEscalated == Terminal /\ route = "escalate"

----------------------------------------------------------------------------
\* Properties

\* C1: every run reaches END (directly or after the escalation node), whatever
\* the challengers and the verifier's model answer, when the runtime keeps
\* executing the nodes.
C1_Terminates == <>Terminal

\* C2: a run that ends approved by the 2/3 rule has at least two passing
\* critiques (is_valid and accept) among the three its challengers created in
\* the final round.
C2_ApprovedByFinalRound ==
    EndApproved => PassedCount(ProducedRound) >= 2

\* C3: after a fan-in the number of critiques is a multiple of 3 and every
\* consecutive triple holds exactly one critique of each of A, B and C.
C3_TriplesOfABC ==
    rounds >= 1 =>
        /\ Len(critiques) % 3 = 0
        /\ \A t \in 0..((Len(critiques) \div 3) - 1) :
               \A c \in ChallengerNames :
                   Cardinality({i \in 1..3 : critiques[3 * t + i].challenger_name = c}) = 1

\* C4: each challenger execution adds exactly one critique, so the state holds
\* 3k critiques after k completed rounds.
C4_ThreePerRound == Len(critiques) = 3 * rounds

\* C5: after the fan-in of a round the last three critiques of the state are
\* the critiques created in that round, in the order [A, B, C].
C5_LastThreeAreTheRound ==
    RoundMerged => RecentCritiques(critiques) = ProducedRound

\* C6: the route chosen after the verifier does not depend on the outcome of
\* the verifier's model call: from the same state, any two outcomes
\* (needs_revision true, false, failed call) lead to the same route.
C6_RouteIgnoresVerifierAnswer ==
    pc = "verifier" =>
        \A a1, a2 \in VerifierAnswers :
            should_continue([State EXCEPT !.revision_count = verifier_node(State, a1)])
              = should_continue([State EXCEPT !.revision_count = verifier_node(State, a2)])

\* C7: whenever at least 2/3 of the last three critiques pass, the route is
\* 'end', for every revision_count and every classification of the draft.
C7_TwoThirdsEnds ==
    (Routed /\ TwoThirds(RecentCritiques(critiques))) => route = "end"

\* a Critical draft approved by the 2/3 rule at revision_count >= 1
C7_Witness ==
    /\ Routed
    /\ TwoThirds(RecentCritiques(critiques))
    /\ IsCritical(synthesized_draft)
    /\ revision_count >= 1
    /\ route = "end"

\* C8: with the default MAX_REVISIONS, when all three challengers accept in the
\* first round the run ends approved with revision_count = 0 and 3 critiques.
C8_FirstRoundAccepted ==
    (/\ MAX_REVISIONS = DEFAULT_MAX_REVISIONS
     /\ rounds = 1
     /\ Routed
     /\ RoundMerged
     /\ \A c \in ChallengerNames : Passes(produced[c]))
    => (/\ Terminal
        /\ route = "end"
        /\ revision_count = 0
        /\ Len(critiques) = 3)

C10_EscalatedHasTrigger ==
    EndEscalated =>
        \/ revision_count >= MAX_REVISIONS /\ ~TwoThirds(ProducedRound)
        \/ IsCritical(synthesized_draft)
        \/ \A i \in 1..3 : Rejects(ProducedRound[i])

----------------------------------------------------------------------------
\* Revision cap

\* the router's view of the round it routes on
NoConsensus == ~TwoThirds(RecentCritiques(critiques))

\* C11: whenever the verifier routes with revision_count >= MAX_REVISIONS and
\* fewer than 2/3 of the last round passed, the route is "escalate", for every
\* configured MAX_REVISIONS
C11_CapWithoutConsensusEscalates ==
    (Routed /\ revision_count >= MAX_REVISIONS /\ NoConsensus)
        => route = "escalate"

NoRoundPassed == \A i \in 1..Len(critiques) : ~Passes(critiques[i])

\* C13: a run in which no challenger accepts in any round ends escalated at
\* revision_count = 3 with the max-revisions reason and 12 critiques
C13_NoAcceptEndsEscalatedAfterThree ==
    (Terminal /\ MAX_REVISIONS = DEFAULT_MAX_REVISIONS /\ NoRoundPassed)
        => /\ route = "escalate"
           /\ revision_count = 3
           /\ escalation = [escalated |-> TRUE, reason |-> MaxRevisionsReason]
           /\ Len(critiques) = 12

\* C14: started with revision_count = 0, every reachable state has
\* revision_count <= MAX_REVISIONS + 1, for every configured MAX_REVISIONS >= 0
\* and all critiques and verifier answers
C14_RevisionCountBounded == revision_count <= MAX_REVISIONS + 1

\* the bound is met: the verifier ran with revision_count at the cap
C14_Witness == Routed /\ revision_count = MAX_REVISIONS + 1

\* C15: with MAX_REVISIONS = 0 the route after the first verifier execution is
\* "end" or "escalate", never "revise", whatever the critiques
C15_ZeroCapNeverRevises ==
    (MAX_REVISIONS = 0 /\ Routed) => route \in {"end", "escalate"}

\* MAX_REVISIONS = 0 and a first round that would be revised below the cap:
\* no 2/3 pass, a rejecting critique, no escalation trigger
C15_Witness ==
    /\ MAX_REVISIONS = 0 /\ Routed /\ rounds = 1
    /\ NoConsensus
    /\ \E i \in 1..Len(critiques) : Rejects(critiques[i])
    /\ route = "end"

----------------------------------------------------------------------------
\* Generator ensemble and LLMFactory

\* the coroutines of run_all that have called LLMFactory.create
Started == {i \in 1..Len(tasks) : tasks[i] # Pending}

\* the slots whose model was not asked, did not answer, or answered no assessment
FailedSlots == {i \in 1..Len(tasks) : tasks[i].status = "done" /\ tasks[i].raised}

\* the slots whose client is a fallback client
FallbackSlots ==
    {i \in Started : ~tasks[i].created.raised /\ tasks[i].created.was_fallback}

\* C16: the ensemble returns exactly N assessments for N specs, the i-th of
\* the i-th spec, whatever calls fail and in whatever order they complete; a
\* failed slot holds the assessment "<provider>/<model> [ERROR]", score 3,
\* without breakdown
C16_ExactlyNInSpecOrder ==
    final_results.returned =>
        /\ Len(final_results.assessments) = Len(generator_configs)
        /\ \A i \in 1..Len(generator_configs) :
               LET a == final_results.assessments[i] IN
               IF i \in FailedSlots
               THEN /\ a.model_name = [provider |-> generator_configs[i].provider,
                                       model |-> generator_configs[i].model,
                                       error |-> TRUE]
                    /\ a.score = 3
                    /\ a.risk_classification = None
               ELSE /\ a = tasks[i].result
                    /\ a.model_name = [provider |-> tasks[i].created.actual_provider,
                                       model |-> tasks[i].created.actual_model,
                                       error |-> FALSE]

\* two slots that completed in reverse order, one failed and one served
C16_Witness ==
    /\ final_results.returned
    /\ completion_order = <<2, 1>>
    /\ FailedSlots = {2}

\* C17 as stated: when the requested provider and the declared fallback
\* provider are both unavailable but openai is available, create returns
\* (openai, gpt-4o, was_fallback = true)
C17_UniversalFallbackAfterDeclared ==
    \A i \in Started :
        LET model_config == generator_configs[i]
            created == tasks[i].created
        IN  ( /\ ~available[model_config.provider]
              /\ model_config.fallback_provider # None
              /\ ~available[model_config.fallback_provider]
              /\ available["openai"] )
            => /\ ~created.raised
               /\ created.actual_provider = "openai"
               /\ created.actual_model = "gpt-4o"
               /\ created.was_fallback

\* C17: create resolves to the requested pair only if its provider is
\* available; else to the declared fallback, tried whether or not its
\* provider is available; to (openai, gpt-4o) only when no fallback is
\* declared, openai is available and the requested provider is not openai;
\* with the requested and a declared non-openai fallback provider both
\* unavailable it fails, also when openai is available
C17_DeclaredFallbackExcludesUniversal ==
    \A i \in Started :
        LET model_config == generator_configs[i]
            created == tasks[i].created
            declared == /\ model_config.fallback_model # None
                        /\ model_config.fallback_provider # None
        IN  /\ (~created.raised /\ ~created.was_fallback)
                   => /\ available[model_config.provider]
                      /\ created.actual_provider = model_config.provider
                      /\ created.actual_model = model_config.model
            /\ (~created.raised /\ created.was_fallback /\ declared)
                   => /\ created.actual_provider = model_config.fallback_provider
                      /\ created.actual_model = model_config.fallback_model
            /\ (~created.raised /\ created.was_fallback /\ ~declared)
                   => /\ created.actual_provider = "openai"
                      /\ created.actual_model = "gpt-4o"
                      /\ model_config.provider # "openai"
                      /\ available["openai"]
            /\ ( /\ ~available[model_config.provider]
                 /\ declared
                 /\ model_config.fallback_provider # "openai"
                 /\ ~available[model_config.fallback_provider] )
                   => created.raised

\* create was called with the requested and the declared fallback provider
\* unavailable and openai available
C17_Witness ==
    \E i \in Started :
        /\ ~available[generator_configs[i].provider]
        /\ generator_configs[i].fallback_provider # None
        /\ ~available[generator_configs[i].fallback_provider]
        /\ available["openai"]
        /\ tasks[i].created.raised

\* C18 as stated: a slot served through a fallback has its event in the
\* fallback-event log and an assessment whose model_name begins with the
\* actual provider/model, also when the call of the fallback client fails
C18_FallbackSlotNamesActual ==
    final_results.returned =>
        \A i \in FallbackSlots :
            LET model_config == generator_configs[i]
                created == tasks[i].created
                name == final_results.assessments[i].model_name
            IN  /\ \E k \in 1..Len(fallback_events) :
                       fallback_events[k] =
                           FallbackEvent(model_config.provider, model_config.model,
                                         created.actual_provider,
                                         created.actual_model)
                /\ name.provider = created.actual_provider
                /\ name.model = created.actual_model

\* C18: a slot served through a fallback has its event in the fallback-event
\* log; its assessment names the actual provider/model when the call
\* succeeded, and is the assessment "<requested provider>/<requested model>
\* [ERROR]" when the call of the fallback client failed
C18_FallbackSlotNamesActualOnSuccess ==
    final_results.returned =>
        \A i \in FallbackSlots :
            LET model_config == generator_configs[i]
                created == tasks[i].created
                name == final_results.assessments[i].model_name
            IN  /\ \E k \in 1..Len(fallback_events) :
                       fallback_events[k] =
                           FallbackEvent(model_config.provider, model_config.model,
                                         created.actual_provider,
                                         created.actual_model)
                /\ IF i \in FailedSlots
                   THEN name = [provider |-> model_config.provider,
                                model |-> model_config.model, error |-> TRUE]
                   ELSE name = [provider |-> created.actual_provider,
                                model |-> created.actual_model, error |-> FALSE]

\* a fallback client answered for one slot and failed for another
C18_Witness ==
    /\ final_results.returned
    /\ \E i \in FallbackSlots : i \in FailedSlots
    /\ \E i \in FallbackSlots : i \notin FailedSlots

\* C19: every call of LLMFactory.create, returning or failing, appends
\* exactly one entry to the instantiation log
C19_EveryCreateLogged == Len(instantiation_log) = Cardinality(Started)

\* C20: a failed call or an unparseable response of a generator slot appends
\* one audit record of the generator whose response begins with "ERROR: "
\* (stated for the runs in which every client was created, so that every
\* failed slot is a failed call or an unparseable response)
C20_FailureHasErrorRecord ==
    (\A i \in Started : ~tasks[i].created.raised) =>
        Cardinality({k \in 1..Len(conversation_log) :
                        /\ conversation_log[k].stage = "generator"
                        /\ conversation_log[k].response = "ERROR: "})
            = Cardinality(FailedSlots)

----------------------------------------------------------------------------
\* Audit log and error handling

\* the nodes that executed in a run that reached END
ExecutedNodes ==
    {"generator", "aggregator", "challenger_a", "challenger_b", "challenger_c",
     "verifier"} \cup (IF route = "escalate" THEN {"escalation"} ELSE {})

\* C21: at the end of every run the audit log holds at least one record for
\* each node that executed in the run, early returns and error paths included
C21_EveryExecutedNodeRecorded == Terminal => ExecutedNodes \subseteq recorded

\* C22: for each of the challengers A, B and C a failed model call (or an
\* answer that does not parse) yields the critique is_valid = false,
\* recommendation = needs_review; no challenger accepts on a failed call
C22_FailedCallYieldsNeedsReview ==
    (pc = "challengers" /\ synthesized_draft # NoDraft) =>
        /\ LLMCritique("challenger_a", State, Failed)
               = Critique("challenger_a", FALSE, "needs_review")
        /\ LLMCritique("challenger_c", State, Failed)
               = Critique("challenger_c", FALSE, "needs_review")
        /\ \A found \in CitationFindings \ {"no_citations"} :
               SourceCritique(State, found, Failed)
                   = Critique("challenger_b", FALSE, "needs_review")

----------------------------------------------------------------------------
\* Risk breakdown

\* an assessment with a breakdown was built
HasBreakdown ==
    /\ parsed # NotParsed /\ parsed # ParseRaised
    /\ parsed.risk_assessment # NoBreakdown

\* C24: every breakdown built from an answer satisfies
\* final_risk_score = frequency_score * impact_score
C24_FinalIsProduct ==
    HasBreakdown =>
        parsed.risk_assessment.final_risk_score
            = parsed.risk_assessment.frequency_score
                  * parsed.risk_assessment.impact_score

\* a breakdown was kept from an answer whose final_risk_score was not the product
C24_Witness ==
    /\ HasBreakdown
    /\ content.risk_assessment.final_risk_score
           # content.risk_assessment.frequency_score
                 * content.risk_assessment.impact_score

\* C25: every breakdown has the classification the rubric assigns to its
\* final_risk_score, whatever classification the answer carried
C25_ClassificationFollowsFinal ==
    HasBreakdown =>
        parsed.risk_assessment.risk_classification
            = Classification(parsed.risk_assessment.final_risk_score)

\* C26: an answer whose block has in-range factors and a final_risk_score
\* that disagrees with their product, out-of-range values such as 99
\* included, keeps a breakdown with the recomputed final score and its two
\* rationales
C26_MismatchKeepsBreakdown ==
    LET block == content.risk_assessment IN
    ( /\ parsed # NotParsed /\ parsed # ParseRaised
      /\ block.present
      /\ block.frequency_score \in 1..SCORE_MAX
      /\ block.impact_score \in 1..SCORE_MAX
      /\ block.final_risk_score # block.frequency_score * block.impact_score )
    => /\ parsed.risk_assessment # NoBreakdown
       /\ parsed.risk_assessment.final_risk_score
              = block.frequency_score * block.impact_score
       /\ parsed.risk_assessment.frequency_rationale = block.frequency_rationale
       /\ parsed.risk_assessment.impact_rationale = block.impact_rationale

\* C27: the legacy score of an assessment with a breakdown is the bucket of
\* its final_risk_score
C27_LegacyScoreFollowsFinal ==
    HasBreakdown =>
        parsed.score = LegacyScore(parsed.risk_assessment.final_risk_score)


----------------------------------------------------------------------------
\* Escalation artifact

Triggers(s) ==
    LET recent == RecentCritiques(s.critiques) IN
    (IF /\ s.revision_count >= ESCALATION_REVISION_LIMIT
        /\ Len(recent) > 0
        /\ ~TwoThirds(recent)
     THEN {MaxRevisionsReason} ELSE {})
    \cup (IF IsCritical(s.synthesized_draft) THEN {CriticalReason} ELSE {})
    \cup (IF /\ Len(s.critiques) > 0
             /\ \A i \in 1..Len(recent) : Rejects(recent[i])
          THEN {AllRejectReason} ELSE {})

\* C29: the reason recorded in an escalation file names every condition of
\* escalation that holds on the state
C29_ReasonNamesEveryTrigger ==
    \A k \in 1..Len(artifacts) : Triggers(State) \subseteq {artifacts[k].reason}


\* C30: a run that took the route 'escalate' ends right after the escalation
\* node with exactly one escalation file written, and the state it returns
\* carries an escalation record with the reason of that file
C30_EscalatedRunCarriesRecord ==
    EndEscalated =>
        /\ Len(artifacts) = 1
        /\ ReturnedEscalation # NoEscalation
        /\ ReturnedEscalation.escalated
        /\ ReturnedEscalation.reason = artifacts[1].reason


----------------------------------------------------------------------------
\* Revision loop

\* C31: every step along the revise edge (verifier to aggregator) is a
\* verifier execution that increased revision_count by exactly 1
C31_ReviseIncrementsByOne ==
    [][(pc = "verifier" /\ pc' = "aggregator")
           => revision_count' = revision_count + 1]_vars


\* C32: in every round the verifier executes once, and only after the three
\* challengers of that round have completed: the verifier is entered only
\* from the join of a round in which A, B and C each produced a critique, and
\* a verifier execution leaves the verifier
C32_VerifierOnceAfterAllChallengers ==
    [][/\ (pc' = "verifier" /\ pc # "verifier")
              => /\ pc = "challengers"
                 /\ \A c \in ChallengerNames : produced[c] # NoCritique
                 /\ rounds' = rounds + 1
       /\ pc = "verifier" => pc' # "verifier"]_vars

\* the verifier of the second round is about to execute, the three
\* challengers of the round having completed
C32_Witness ==
    /\ pc = "verifier"
    /\ rounds = 2
    /\ \A c \in ChallengerNames : produced[c] # NoCritique


----------------------------------------------------------------------------
\* Citation search

\* C33: for a non-empty citation list challenger B issues one search per
\* citation and its summary holds exactly one entry per citation; a citation
\* whose search failed has an unverified entry and the others are searched
C33_OneEntryPerCitation ==
    search_results_summary # <<>> =>
        /\ Len(searched) = Len(all_citations)
        /\ Len(search_results_summary) = Len(all_citations)
        /\ \A i \in 1..Len(all_citations) :
               \E k \in 1..Len(search_results_summary) :
                   /\ search_results_summary[k].citation = all_citations[i]
                   /\ search_tool[all_citations[i]] = "raises"
                          => ~search_results_summary[k].verified


----------------------------------------------------------------------------
\* Frame conditions of the nodes

\* C34: each node changes only its own field of the state: the generator
\* draft_assessments, the aggregator synthesized_draft, the challengers (at
\* their join) critiques, the verifier revision_count; risk_input never
\* changes, draft_assessments never changes after the generator, and
\* revision_count never decreases
C34_NodesWriteOwnField ==
    [][/\ risk_input' = risk_input
       /\ draft_assessments' # draft_assessments => pc = "generator_ensemble"
       /\ synthesized_draft' # synthesized_draft => pc = "aggregator"
       /\ critiques' # critiques => pc = "challengers"
       /\ revision_count' # revision_count => pc = "verifier"
       /\ revision_count' >= revision_count]_vars

\* a run in which every node has written: two rounds, a revision counted
C34_Witness ==
    /\ Terminal
    /\ rounds = 2
    /\ Len(draft_assessments) > 0
    /\ synthesized_draft # NoDraft
    /\ revision_count > 0


----------------------------------------------------------------------------
\* Audit log under concurrency

\* the entries of the record() calls that have appended
AppendedEntries ==
    {e \in {Entry(c, k) : c \in ChallengerNames, k \in 1..MaxRecords} :
        e.call <= calls[e.stage]
                    + (IF recorder_pc[e.stage].at = "appended" THEN 1 ELSE 0)}

\* a list holds each of the entries once and nothing else
HoldsExactly(log, entries) ==
    /\ Len(log) = Cardinality(entries)
    /\ \A e \in entries : Cardinality({i \in 1..Len(log) : log[i] = e}) = 1

\* C35: under every interleaving of the record() calls of the three parallel
\* challengers the run's log gains exactly one entry per call, and the log
\* read at the end of the run holds every entry recorded since start_run
C35_NoRecordLostOrDuplicated ==
    IF run_records.read
    THEN HoldsExactly(run_records.records, AppendedEntries)
    ELSE HoldsExactly(log_objects[context_log["main"]], AppendedEntries)

\* the log was read at the end of a run in which the challengers' calls
\* interleaved: two calls of one challenger with another's between them
C35_Witness ==
    /\ run_records.read
    /\ Len(run_records.records) >= 4
    /\ run_records.records[1].stage = run_records.records[3].stage
    /\ run_records.records[1].stage # run_records.records[2].stage


----------------------------------------------------------------------------
\* Rounds and revisions

\* C36: at every terminal state the number of completed challenger rounds is
\* revision_count + 1: revision_count counts the revise transitions of the run
C36_RoundsAreRevisionsPlusOne == Terminal => rounds = revision_count + 1


\* C37: an aggregator execution reached through the revise edge runs in
\* revision mode, and the first aggregator execution of a run that has
\* assessments runs in initial-synthesis mode
C37_ReviseRunsRevisionMode ==
    pc = "aggregator" =>
        /\ route = "revise" => aggregator_mode(State) = "revision"
        /\ (route = None /\ Len(draft_assessments) > 0)
               => aggregator_mode(State) = "initial"


----------------------------------------------------------------------------
\* Fallback log

\* the entries of the instantiation log that name a fallback
FallbackLogEntries ==
    {k \in 1..Len(instantiation_log) : instantiation_log[k].fallback_used}

\* C38: a failing LLMFactory.create leaves both logs unchanged, so the
\* number of FallbackEvents equals the number of instantiation-log entries
\* with fallback_used = true
C38_FallbackEventsMatchLog ==
    Len(fallback_events) = Cardinality(FallbackLogEntries)


----------------------------------------------------------------------------
\* Citation parser

\* a sequence without duplicate entries
NoDuplicates(seq) == \A i, j \in 1..Len(seq) : i # j => seq[i] # seq[j]

\* C39: extract_cves, extract_regulations and extract_standards each return
\* a sequence without duplicate entries, for every text, one that mentions
\* the same CVE or standard more than once included
C39_ExtractedWithoutDuplicates ==
    \A m \in Extractors : NoDuplicates(extracted[m].citations)

====
